---- MODULE Spec2Model ----
(***************************************************************************)
(* The Diamond collectors of src/collectors as a state machine.            *)
(*                                                                         *)
(* The host calls collect() of one collector instance at a time.  One      *)
(* action models one whole collect() call: it reads what the environment   *)
(* holds this cycle (files, sockets, the HTTP endpoint), and leaves in the *)
(* state the record of the call: what was published, what was logged, the  *)
(* exception that left collect() (if any) and the handles left open.  The  *)
(* configuration of an instance is fixed at construction; last_values is   *)
(* the counter state the derivative collectors keep across cycles.         *)
(*                                                                         *)
(* Text is kept as text: a line is the sequence of its whitespace-separated*)
(* tokens, every token a string, and long()/float()/int() are parses that  *)
(* fail on a token that is no numeral.                                     *)
(***************************************************************************)
EXTENDS Integers, Sequences, FiniteSets, TLC

VARIABLES
    config,       \* per collector: the options read at construction
    last_values,  \* per derivative collector: metric name -> last raw value
    collector,    \* the collector whose collect() ran last ("none" at start)
    input,        \* what the environment held during that call
    published,    \* the publish calls of that call, in order
    logged,       \* the log.error / log.exception calls of that call, in order
    raised,       \* the exception that propagated out of collect(), or NoError
    leaked,       \* file handles and sockets still open when the call ended
    network,      \* the blocking network operations of that call, in order
    earlier_containers  \* history: the Mesos container tables of the cycles before

vars == <<config, last_values, collector, input, published, logged, raised, leaked,
          network, earlier_containers>>

---------------------------------------------------------------------------
(* Bounds of the model *)

\* Width of a raw counter in bits.  The kernel counters are 32 bits wide;
\* TLC's integers are 32-bit signed, so the model keeps the shape (a
\* counter of w bits, the modulus 2^w - 1) at a width it can enumerate.
CounterBits == 2

\* Lines of a /proc/net/snmp file.
MaxLines == 2

---------------------------------------------------------------------------
(* Values shared by the collectors *)

NoError == "none"

RawValues == 0 .. (2 ^ CounterBits - 1)

\* The numbers a text may spell: the counter range and beyond it.
Numbers == (0 .. (2 ^ (CounterBits + 1))) \cup {100}

\* The numerals a counter file may hold.
Numerals == {ToString(n) : n \in RawValues}

\* long(s), int(s), float(s) on a token: defined on numerals, ValueError
\* on anything else.
IsNumeral(tok) == \E n \in Numbers : ToString(n) = tok

NumberOf(tok) == CHOOSE n \in Numbers : ToString(n) = tok

\* The orders in which a dict's keys (or a directory's entries) may be
\* iterated: any order, each key once.
Orders(S) ==
    {o \in [1 .. Cardinality(S) -> S] : \A i, j \in DOMAIN o : o[i] = o[j] => i = j}

EmptyDict == [n \in {} |-> 0]

Max(S) == CHOOSE x \in S : \A y \in S : y <= x

---------------------------------------------------------------------------
(* The host framework: diamond.collector.Collector.derivative *)

\* derivative(name, new, max_value) against the previous raw value old:
\* new - old, and on a decrease (wraparound) (max_value - old) + new.
DerivativeValue(old, new, max_value) ==
    IF new >= old THEN new - old ELSE (max_value - old) + new

\* The first observation of a name has nothing to subtract from.
Derivative(last, name, new, max_value) ==
    [value |-> IF name \in DOMAIN last
               THEN DerivativeValue(last[name], new, max_value)
               ELSE 0,
     last  |-> [n \in DOMAIN last \cup {name} |->
                    IF n = name THEN new ELSE last[n]]]

---------------------------------------------------------------------------
(* IPCollector and UDPCollector: /proc/net/snmp *)

IP_GAUGES == {"Forwarding", "DefaultTTL"}

\* line.startswith('Ip') / line.startswith("Udp"), on the first token of a
\* line (a blank line has none).
StartsWith(line, prefix) ==
    /\ line # <<>>
    /\ \/ prefix = "Ip"  /\ line[1] \in {"Ip:", "IpExt:"}
       \/ prefix = "Udp" /\ line[1] \in {"Udp:", "UdpLite:"}

\* The readline loop: the first line that starts with the prefix is the
\* header and the readline after it the data; "" is what stays when there
\* is no such line, or what readline returns at the end of the file.
EndOfFile == <<"">>

SnmpHeaderIndex(lines, prefix) ==
    IF \E i \in DOMAIN lines : StartsWith(lines[i], prefix)
    THEN CHOOSE i \in DOMAIN lines :
            /\ StartsWith(lines[i], prefix)
            /\ \A j \in 1 .. (i - 1) : ~StartsWith(lines[j], prefix)
    ELSE 0

SnmpHeader(lines, prefix) ==
    IF SnmpHeaderIndex(lines, prefix) = 0 THEN EndOfFile
    ELSE lines[SnmpHeaderIndex(lines, prefix)]

SnmpData(lines, prefix) ==
    IF SnmpHeaderIndex(lines, prefix) = 0 \/ SnmpHeaderIndex(lines, prefix) = Len(lines)
    THEN EndOfFile
    ELSE lines[SnmpHeaderIndex(lines, prefix) + 1]

\* header.split(), data.split() and the zip: metrics[header[i]] = data[i]
\* for i in 1 .. len(header) - 1 (0-based); a later duplicate name wins.
SnmpZipRaises(header, data) == Len(header) >= 2 /\ Len(data) < Len(header)

\* The zip with the data row read one place to the left, as if the row
\* carried no label.
SnmpZipShifted(header, data) ==
    [n \in {header[i] : i \in 2 .. Len(header)} |->
        data[Max({i \in 2 .. Len(header) : header[i] = n}) - 1]]

SnmpZip(header, data) ==
    [n \in {header[i] : i \in 2 .. Len(header)} |->
        data[Max({i \in 2 .. Len(header) : header[i] = n})]]

\* One file of PROC: what it adds to metrics, what it logs, whether the
\* zip raises.
SnmpRead(file, prefix) ==
    IF ~file.readable
    THEN [metrics |-> EmptyDict, logged |-> <<"permission">>, raised |-> NoError]
    ELSE LET header == SnmpHeader(file.lines, prefix)
             data   == SnmpData(file.lines, prefix)
         IN  IF header = EndOfFile \/ data = EndOfFile
             THEN [metrics |-> EmptyDict, logged |-> <<"no lines">>, raised |-> NoError]
             ELSE IF SnmpZipRaises(header, data)
             THEN [metrics |-> EmptyDict, logged |-> <<>>, raised |-> "IndexError"]
             ELSE [metrics |-> SnmpZip(header, data), logged |-> <<>>, raised |-> NoError]

\* The allow-list test with the membership test lost.
AllowedAll(name, allowed_names) == TRUE

\* The allow-list test of both collectors.
Allowed(name, allowed_names) ==
    ~(Cardinality(allowed_names) > 0 /\ name \notin allowed_names)

\* IPCollector: the publish loop over metrics.keys() in the order given.
RECURSIVE IpPublish(_, _, _, _)
IpPublish(order, metrics, allowed_names, acc) ==
    IF order = <<>> THEN [published |-> acc, raised |-> NoError]
    ELSE LET name == Head(order) IN
         IF ~Allowed(name, allowed_names)
         THEN IpPublish(Tail(order), metrics, allowed_names, acc)
         ELSE IF ~IsNumeral(metrics[name])
         THEN [published |-> acc, raised |-> "ValueError"]
         ELSE IpPublish(Tail(order), metrics, allowed_names,
                        Append(acc, [name  |-> name,
                                     value |-> NumberOf(metrics[name]),
                                     kind  |-> IF name \in IP_GAUGES
                                               THEN "gauge" ELSE "counter"]))

\* UDPCollector passes no max_value to derivative() (udp.py:133): the host's
\* derivative() then has no modulus to add on a decrease, taken here as 0.
UdpMaxValue == 0

\* UDPCollector: the publish loop; derivative() updates last_values as it
\* goes, so what it stored before a raise stays stored.
RECURSIVE UdpPublish(_, _, _, _, _)
UdpPublish(order, metrics, allowed_names, last, acc) ==
    IF order = <<>> THEN [published |-> acc, raised |-> NoError, last |-> last]
    ELSE LET name == Head(order) IN
         IF ~Allowed(name, allowed_names)
         THEN UdpPublish(Tail(order), metrics, allowed_names, last, acc)
         ELSE IF ~IsNumeral(metrics[name])
         THEN [published |-> acc, raised |-> "ValueError", last |-> last]
         ELSE LET d == Derivative(last, name, NumberOf(metrics[name]), UdpMaxValue) IN
              UdpPublish(Tail(order), metrics, allowed_names, d.last,
                         Append(acc, [name  |-> name,
                                      value |-> d.value,
                                      kind  |-> "publish"]))

---------------------------------------------------------------------------
(* The files a cycle may find *)

IpHeader == <<"Ip:", "Forwarding", "InReceives">>
UdpHeader == <<"Udp:", "InDatagrams", "NoPorts">>

IpNames == {"Forwarding", "InReceives", "OutRequests"}
UdpNames == {"InDatagrams", "NoPorts", "InErrors"}

\* Lines that are no complete data row: another protocol's line, a blank
\* line, a row without its label, a row with a value that is no number.
IpLines ==
    { IpHeader, <<"Tcp:", "1">>, <<>>, <<"Ip:", "1", "3">>, <<"1", "100">>, <<"Ip:", "2", "x">> }

UdpOddLines ==
    { UdpHeader, <<"Tcp:", "1">>, <<>>, <<"1", "3">>, <<"Udp:", "2", "x">> }

UdpRows == { <<"Udp:", a, b>> : a \in Numerals, b \in {"0", "1"} }

SeqsUpTo(S, n) == UNION { [1 .. k -> S] : k \in 0 .. n }

Unreadable == [readable |-> FALSE, lines |-> <<>>]

IpFiles ==
    {Unreadable} \cup {[readable |-> TRUE, lines |-> l] : l \in SeqsUpTo(IpLines, MaxLines)}

UdpFiles ==
    {Unreadable}
    \cup {[readable |-> TRUE, lines |-> l] : l \in SeqsUpTo(UdpOddLines, MaxLines)}
    \cup {[readable |-> TRUE, lines |-> <<UdpHeader, r>>] : r \in UdpRows}

AllowLists(names) == SUBSET names

---------------------------------------------------------------------------
(* KVMCollector: /sys/kernel/debug/kvm *)

\* The modulus taken one too large: 2^32 for 2^32 - 1.
KvmMaxValueOffByOne == 2 ^ CounterBits

\* The max_value KVMCollector passes to derivative(): 4294967295, which is
\* 2^32 - 1, at the model's counter width.
KvmMaxValue == 2 ^ CounterBits - 1

\* An entry of a directory, as open() and readline() find it: one that
\* open() refuses (a subdirectory, a file without read permission), one
\* whose read fails, or a file with a first line.
NoOpen == [kind |-> "noopen", line |-> ""]
NoRead == [kind |-> "noread", line |-> ""]
FileOf(line) == [kind |-> "file", line |-> line]

\* The loop over os.listdir(PROC) in the order given.  open() and
\* readline() raise IOError, float() raises ValueError; fh is never closed.
RECURSIVE KvmPublish(_, _, _, _, _)
KvmPublish(order, entries, last, acc, opened) ==
    IF order = <<>>
    THEN [published |-> acc, raised |-> NoError, last |-> last, leaked |-> opened]
    ELSE LET filename == Head(order)
             entry    == entries[filename]
         IN  IF entry.kind = "noopen"
             THEN [published |-> acc, raised |-> "IOError", last |-> last,
                   leaked |-> opened]
             ELSE IF entry.kind = "noread"
             THEN [published |-> acc, raised |-> "IOError", last |-> last,
                   leaked |-> opened + 1]
             ELSE IF ~IsNumeral(entry.line)
             THEN [published |-> acc, raised |-> "ValueError", last |-> last,
                   leaked |-> opened + 1]
             ELSE LET d == Derivative(last, filename, NumberOf(entry.line), KvmMaxValue) IN
                  KvmPublish(Tail(order), entries, d.last,
                             Append(acc, [name  |-> filename,
                                          value |-> d.value,
                                          kind  |-> "publish"]),
                             opened + 1)

---------------------------------------------------------------------------
(* KSMCollector: /sys/kernel/mm/ksm *)

\* An entry for which os.access(item, os.R_OK) is false.
NoAccess == [kind |-> "noaccess", line |-> ""]

\* The loop over glob(ksm_path/*) in the order given.  Only ValueError is
\* caught; filehandle.close() is reached when nothing else was raised.
RECURSIVE KsmPublish(_, _, _)
KsmPublish(order, entries, acc) ==
    IF order = <<>> THEN [published |-> acc, raised |-> NoError, leaked |-> 0]
    ELSE LET item  == Head(order)
             entry == entries[item]
         IN  IF entry.kind = "noaccess"
             THEN KsmPublish(Tail(order), entries, acc)
             ELSE IF entry.kind = "noopen"
             THEN [published |-> acc, raised |-> "IOError", leaked |-> 0]
             ELSE IF entry.kind = "noread"
             THEN [published |-> acc, raised |-> "IOError", leaked |-> 1]
             ELSE IF ~IsNumeral(entry.line)
             THEN KsmPublish(Tail(order), entries, acc)
             ELSE KsmPublish(Tail(order), entries,
                             Append(acc, [name  |-> item,
                                          value |-> NumberOf(entry.line),
                                          kind  |-> "publish"]))

---------------------------------------------------------------------------
(* UptimeCollector: /proc/uptime *)

\* diamond.convertor.time.convert(v, 's', unit): seconds to the unit, as
\* the fraction v / divisor; an unknown unit raises.
TimeUnits == [seconds |-> 1, minutes |-> 60, hours |-> 3600, days |-> 86400]

ConvertRaises(unit) == unit \notin DOMAIN TimeUnits

Convert(v, unit) == [num |-> v, den |-> TimeUnits[unit]]

\* read(): open, readline, close, float(uptime.split()[0].strip()) and the
\* conversion, every exception caught and logged, and then None returned
\* (ok false).  The first line is the sequence of its tokens.
NoValue(exception, open) ==
    [ok |-> FALSE, v |-> [num |-> 0, den |-> 1], logged |-> <<exception>>, leaked |-> open]

\* read() with an empty first line read as 0 instead of raising.
UptimeReadEmptyAsZero(file, unit) ==
    IF file.kind = "noopen" THEN NoValue("IOError", 0)
    ELSE IF file.kind = "noread" THEN NoValue("IOError", 1)
    ELSE IF file.line = <<>> THEN [ok |-> TRUE, v |-> [num |-> 0, den |-> 1],
                                   logged |-> <<>>, leaked |-> 0]
    ELSE IF ~IsNumeral(file.line[1]) THEN NoValue("ValueError", 0)
    ELSE IF ConvertRaises(unit) THEN NoValue("NotImplementedError", 0)
    ELSE [ok |-> TRUE, v |-> Convert(NumberOf(file.line[1]), unit),
          logged |-> <<>>, leaked |-> 0]

UptimeRead(file, unit) ==
    IF file.kind = "noopen" THEN NoValue("IOError", 0)
    ELSE IF file.kind = "noread" THEN NoValue("IOError", 1)
    ELSE IF file.line = <<>> THEN NoValue("IndexError", 0)
    ELSE IF ~IsNumeral(file.line[1]) THEN NoValue("ValueError", 0)
    ELSE IF ConvertRaises(unit) THEN NoValue("NotImplementedError", 0)
    ELSE [ok |-> TRUE, v |-> Convert(NumberOf(file.line[1]), unit),
          logged |-> <<>>, leaked |-> 0]

---------------------------------------------------------------------------
(* MemcachedCollector: the stats socket *)

\* Text on the wire is the sequence of its atoms: words, and the separators
\* between them.  A chunk boundary falls between two atoms.
SP == " "
CRLF == "\r\n"

MC_GAUGES ==
    {"bytes", "connection_structures", "curr_connections", "curr_items",
     "threads", "reserved_fds", "limit_maxbytes", "hash_power_level",
     "hash_bytes", "hash_is_expanding", "uptime"}

MC_IGNORED ==
    {"libevent", "pointer_size", "time", "version", "repcached_version",
     "replication", "accepting_conns", "pid"}

\* The end test taken for a test of the line end alone.
EndsWithLineEnd(data) == Len(data) >= 1 /\ data[Len(data)] = CRLF

\* data.endswith('END\r\n')
EndsWithEnd(data) ==
    Len(data) >= 2 /\ data[Len(data) - 1] = "END" /\ data[Len(data)] = CRLF

\* The recv loop.  events is what each sock.recv(4096) of this connection
\* does in turn: it returns data, returns '' (the peer closed) or raises
\* socket.error; when the peer has nothing more to send recv times out
\* (socket.timeout, a socket.error).  recvs counts the calls issued.
RECURSIVE RecvLoop(_, _, _)
RecvLoop(events, data, recvs) ==
    IF events = <<>> \/ Head(events).kind = "error"
    THEN [data |-> data, logged |-> <<"socket.error">>, recvs |-> recvs + 1]
    ELSE IF Head(events).kind = "closed"
    THEN [data |-> data, logged |-> <<>>, recvs |-> recvs + 1]
    ELSE LET got == data \o Head(events).data IN
         IF EndsWithEnd(got)
         THEN [data |-> got, logged |-> <<>>, recvs |-> recvs + 1]
         ELSE RecvLoop(Tail(events), got, recvs + 1)

\* get_raw_stats(host, port): connect, settimeout(3), send, the recv loop;
\* socket.error is caught and logged, and sock.close() follows in every
\* case.
GetRawStats(script) ==
    IF script.connect = "error"
    THEN [data |-> <<>>, logged |-> <<"socket.error">>, recvs |-> 0]
    ELSE RecvLoop(script.events, <<>>, 0)

\* The blocking socket operations of get_raw_stats in program order, each
\* with whether a timeout was in effect on the socket when it started:
\* connect() runs before settimeout(3), send() and every recv() after it.
NetworkOp(op, timed) == [op |-> op, timed |-> timed]

SocketOps(script) ==
    <<NetworkOp("connect", FALSE)>>
    \o (IF script.connect = "error" THEN <<>>
        ELSE <<NetworkOp("send", TRUE)>>
             \o [i \in 1 .. GetRawStats(script).recvs |-> NetworkOp("recv", TRUE)])

\* s.split(sep) on a sequence of atoms: the pieces between the separators,
\* each the sequence of its atoms ('' is <<>>).
RECURSIVE SplitAt(_, _, _, _)
SplitAt(text, sep, piece, acc) ==
    IF text = <<>> THEN Append(acc, piece)
    ELSE IF Head(text) = sep THEN SplitAt(Tail(text), sep, <<>>, Append(acc, piece))
    ELSE SplitAt(Tail(text), sep, Append(piece, Head(text)), acc)

Split(text, sep) == SplitAt(text, sep, <<>>, <<>>)

\* data.splitlines(): no line for empty data, none after a final line end.
SplitLines(data) ==
    IF data = <<>> THEN <<>>
    ELSE IF data[Len(data)] = CRLF THEN Split(SubSeq(data, 1, Len(data) - 1), CRLF)
    ELSE Split(data, CRLF)

\* A piece as the word it spells: one atom, or '' for none.
Word(piece) == IF Len(piece) = 1 THEN piece[1] ELSE ""

\* The parse loop of get_stats over the lines: the stats dict, the pid
\* captured, and the exception a line raises (pieces[1] or pieces[2]
\* missing: IndexError; int() of a value that is no number: ValueError).
RECURSIVE ParseStats(_, _, _)
ParseStats(lines, stats, pid) ==
    IF lines = <<>> THEN [stats |-> stats, pid |-> pid, raised |-> NoError]
    ELSE LET pieces == Split(Head(lines), SP) IN
         IF Word(pieces[1]) # "STAT"
         THEN ParseStats(Tail(lines), stats, pid)
         ELSE IF Len(pieces) < 2
         THEN [stats |-> stats, pid |-> pid, raised |-> "IndexError"]
         ELSE IF Word(pieces[2]) \in MC_IGNORED
         THEN ParseStats(Tail(lines), stats, pid)
         ELSE IF Len(pieces) < 3
         THEN [stats |-> stats, pid |-> pid, raised |-> "IndexError"]
         ELSE IF Word(pieces[2]) = "pid"
         THEN ParseStats(Tail(lines), stats, Word(pieces[3]))
         ELSE IF ~IsNumeral(Word(pieces[3]))
         THEN [stats |-> stats, pid |-> pid, raised |-> "ValueError"]
         ELSE ParseStats(Tail(lines),
                         [k \in DOMAIN stats \cup {Word(pieces[2])} |->
                             IF k = Word(pieces[2]) THEN NumberOf(Word(pieces[3]))
                             ELSE stats[k]],
                         pid)

\* re.search("-c\x00(\d+)", cmdline): the argument after a "-c", when it
\* is a number.  cmdline is the sequence of the NUL-separated arguments.
HasMaxConn(cmdline) ==
    \E i \in 1 .. (Len(cmdline) - 1) : cmdline[i] = "-c" /\ IsNumeral(cmdline[i + 1])

MaxConn(cmdline) ==
    LET i == CHOOSE j \in 1 .. (Len(cmdline) - 1) :
                /\ cmdline[j] = "-c" /\ IsNumeral(cmdline[j + 1])
                /\ \A k \in 1 .. (j - 1) : ~(cmdline[k] = "-c" /\ IsNumeral(cmdline[k + 1]))
    IN  NumberOf(cmdline[i + 1])

\* "/proc/%s/cmdline" % pid, opened in proc (pid -> cmdline of the
\* processes that exist); pid None formats as "None".  Any failure is
\* swallowed.
WithMaxConn(stats, pid, proc) ==
    IF pid \in DOMAIN proc /\ HasMaxConn(proc[pid])
    THEN [k \in DOMAIN stats \cup {"limit_maxconn"} |->
            IF k = "limit_maxconn" THEN MaxConn(proc[pid]) ELSE stats[k]]
    ELSE stats

\* get_stats(host, port)
GetStats(script) ==
    LET raw    == GetRawStats(script)
        parsed == ParseStats(SplitLines(raw.data), EmptyDict, "None")
    IN  [stats  |-> IF parsed.raised # NoError THEN EmptyDict
                    ELSE WithMaxConn(parsed.stats, parsed.pid, script.proc),
         pid    |-> parsed.pid,
         logged |-> raw.logged,
         recvs  |-> raw.recvs,
         raised |-> parsed.raised]

\* re.search('((.+)\@)?([^:]+)(:(\d+))?', host) on a host spec, the
\* sequence of its atoms: the alias is what precedes the last "@", the
\* hostname what follows up to the first ":", the port the digits after it.
LastAt(spec) ==
    IF \E i \in 2 .. Len(spec) : spec[i] = "@"
    THEN Max({i \in 2 .. Len(spec) : spec[i] = "@"})
    ELSE 0

HostPart(spec) == SubSeq(spec, LastAt(spec) + 1, Len(spec))

HostName(spec) == Split(HostPart(spec), ":")[1]

\* The alias lost: every host published under its host name.
HostAliasIsHost(spec) == HostName(spec)

HostAlias(spec) ==
    IF LastAt(spec) = 0 THEN HostName(spec) ELSE SubSeq(spec, 1, LastAt(spec) - 1)

HostPort(spec) ==
    LET parts == Split(HostPart(spec), ":") IN
    IF Len(parts) >= 2 /\ IsNumeral(Word(parts[2])) THEN Word(parts[2]) ELSE "None"

\* The publish loop of one host over desired, in order.
RECURSIVE McPublish(_, _, _, _, _)
McPublish(desired, stats, alias, pub, log) ==
    IF desired = <<>> THEN [published |-> pub, logged |-> log]
    ELSE LET stat == Head(desired) IN
         IF stat \in DOMAIN stats
         THEN McPublish(Tail(desired), stats, alias,
                        Append(pub, [name  |-> alias \o <<".", stat>>,
                                     value |-> stats[stat],
                                     kind  |-> IF stat \in MC_GAUGES
                                               THEN "gauge" ELSE "counter"]),
                        log)
         ELSE McPublish(Tail(desired), stats, alias, pub, Append(log, "no such key"))

\* stats.keys(): the keys in the order a ranking of all keys gives them.
RECURSIVE KeysInOrder(_, _)
KeysInOrder(ranking, keys) ==
    IF ranking = <<>> THEN <<>>
    ELSE IF Head(ranking) \in keys
         THEN <<Head(ranking)>> \o KeysInOrder(Tail(ranking), keys)
         ELSE KeysInOrder(Tail(ranking), keys)

\* config.get('publish', stats.keys()): the publish list when it is set.
Unset == <<"unset">>

Desired(publish, ranking, stats) ==
    IF publish = Unset THEN KeysInOrder(ranking, DOMAIN stats) ELSE publish

\* The loop of collect() over hosts; an exception of get_stats ends it.
RECURSIVE McCollect(_, _, _, _, _, _)
McCollect(hosts, scripts, publish, ranking, pub, log) ==
    IF hosts = <<>> THEN [published |-> pub, logged |-> log, raised |-> NoError]
    ELSE LET got == GetStats(Head(scripts)) IN
         IF got.raised # NoError
         THEN [published |-> pub, logged |-> log \o got.logged, raised |-> got.raised]
         ELSE LET out == McPublish(Desired(publish, ranking, got.stats), got.stats,
                                   HostAlias(Head(hosts)), pub, log \o got.logged)
              IN  McCollect(Tail(hosts), Tail(scripts), publish, ranking,
                            out.published, out.logged)

\* The socket operations of one collect(): those of every host reached.
RECURSIVE McNetwork(_, _)
McNetwork(hosts, scripts) ==
    IF hosts = <<>> THEN <<>>
    ELSE SocketOps(Head(scripts))
         \o (IF GetStats(Head(scripts)).raised # NoError THEN <<>>
             ELSE McNetwork(Tail(hosts), Tail(scripts)))

---------------------------------------------------------------------------
(* MesosCGroupCollector: state.json and the cgroup file system *)

\* urllib2.urlopen(url) is called with no timeout argument, and no default
\* timeout is set by the collector.
MesosNetwork == <<NetworkOp("urlopen", FALSE)>>

\* get_mesos_state(): what json.load(urllib2.urlopen(url)) does.  HTTPError
\* and ValueError (no JSON) are caught and logged and {} is returned; any
\* other failure of the fetch (URLError: connection refused, no route, a
\* timeout) is not caught.
GetMesosState(fetch) ==
    IF fetch.kind \in {"HTTPError", "ValueError"}
    THEN [state |-> EmptyDict, logged |-> <<"unable to read">>, raised |-> NoError]
    ELSE IF fetch.kind = "URLError"
    THEN [state |-> EmptyDict, logged |-> <<>>, raised |-> "URLError"]
    ELSE [state |-> fetch.state, logged |-> <<>>, raised |-> NoError]

\* All executors of all frameworks, in document order.
RECURSIVE Executors(_)
Executors(frameworks) ==
    IF frameworks = <<>> THEN <<>>
    ELSE Head(frameworks).executors \o Executors(Tail(frameworks))

\* The loop of get_containers over the executors:
\* role, environment, task, number = source.split('.') raises ValueError
\* unless source has four parts.
RECURSIVE AddContainers(_, _)
AddContainers(executors, containers) ==
    IF executors = <<>> THEN [containers |-> containers, raised |-> NoError]
    ELSE LET executor == Head(executors)
             parts    == Split(executor.source, ".")
         IN  IF Len(parts) # 4
             THEN [containers |-> containers, raised |-> "ValueError"]
             ELSE AddContainers(Tail(executors),
                    [k \in DOMAIN containers \cup {executor.container} |->
                        IF k = executor.container
                        THEN [role |-> parts[1], environment |-> parts[2],
                              task |-> parts[3], id |-> parts[4]]
                        ELSE containers[k]])

\* The table started from the entries of the cycles before, as if it were
\* kept from one cycle to the next.
StartOfTableKept(state) ==
    [k \in DOMAIN earlier_containers \cup {"flags"} |->
        IF k = "flags" THEN state.flags ELSE earlier_containers[k]]

\* containers = {'flags': state['flags']}: a new table in every call.
StartOfTable(state) == [k \in {"flags"} |-> state.flags]

\* The entries of every table built so far, the later over the earlier; a
\* call that raised built none.
MesosHistory(got) ==
    IF got.raised # NoError THEN earlier_containers
    ELSE [k \in DOMAIN earlier_containers \cup DOMAIN got.containers |->
            IF k \in DOMAIN got.containers THEN got.containers[k]
            ELSE earlier_containers[k]]

\* get_containers()
GetContainers(fetch) ==
    LET got == GetMesosState(fetch) IN
    IF got.raised # NoError
    THEN [containers |-> EmptyDict, logged |-> got.logged, raised |-> got.raised]
    ELSE IF "flags" \notin DOMAIN got.state
    THEN [containers |-> EmptyDict, logged |-> got.logged, raised |-> "KeyError"]
    ELSE LET flags == StartOfTable(got.state)
             added == IF "frameworks" \in DOMAIN got.state
                      THEN AddContainers(Executors(got.state.frameworks), flags)
                      ELSE [containers |-> flags, raised |-> NoError]
         IN  [containers |-> added.containers, logged |-> got.logged,
              raised |-> added.raised]

\* '.'.join(parts), each part a sequence of atoms.
RECURSIVE Join(_)
Join(parts) ==
    IF parts = <<>> THEN <<>>
    ELSE IF Len(parts) = 1 THEN Head(parts)
    ELSE Head(parts) \o <<".">> \o Join(Tail(parts))

\* clean_up(text): text.replace('/', '.')
CleanUp(text) == [i \in DOMAIN text |-> IF text[i] = "/" THEN "." ELSE text[i]]

\* The loop over the lines of <aspect>.stat: key, value = kv_pair.split()
\* raises ValueError unless the line has two tokens.
RECURSIVE MesosStat(_, _, _)
MesosStat(lines, key_parts, acc) ==
    IF lines = <<>> THEN [published |-> acc, raised |-> NoError]
    ELSE IF Len(Head(lines)) # 2 THEN [published |-> acc, raised |-> "ValueError"]
    ELSE MesosStat(Tail(lines), key_parts,
                   Append(acc, [name  |-> CleanUp(Join(key_parts \o << <<Head(lines)[1]>> >>)),
                                value |-> Head(lines)[2],
                                kind  |-> "publish"]))

\* One matched task directory of one aspect: cpuacct.usage for cpuacct,
\* then <aspect>.stat; a file that is not there raises IOError.
MesosTask(aspect, dir, key_parts, acc) ==
    IF aspect = "cpuacct" /\ dir.usage = "missing"
    THEN [published |-> acc, raised |-> "IOError"]
    ELSE LET usage == IF aspect = "cpuacct"
                      THEN Append(acc, [name  |-> CleanUp(Join(key_parts \o << <<"usage">> >>)),
                                        value |-> dir.usage,
                                        kind  |-> "publish"])
                      ELSE acc
         IN  IF ~dir.has_stat
             THEN [published |-> usage, raised |-> "IOError"]
             ELSE MesosStat(dir.stat, key_parts, usage)

\* The loop over the subdirectories of one aspect, in the order given.
RECURSIVE MesosAspect(_, _, _, _, _)
MesosAspect(aspect, order, listing, containers, acc) ==
    IF order = <<>> THEN [published |-> acc, raised |-> NoError]
    ELSE LET task_id == Head(order)
             dir     == listing[task_id]
         IN  IF dir.kind # "dir" \/ task_id \notin DOMAIN containers
             THEN MesosAspect(aspect, Tail(order), listing, containers, acc)
             ELSE IF ~({"environment", "role", "task", "id"} \subseteq DOMAIN containers[task_id])
             THEN [published |-> acc, raised |-> "KeyError"]
             ELSE LET c   == containers[task_id]
                      out == MesosTask(aspect, dir,
                                       <<c.environment, c.role, c.task, c.id, <<aspect>> >>,
                                       acc)
                  IN  IF out.raised # NoError THEN out
                      ELSE MesosAspect(aspect, Tail(order), listing, containers,
                                       out.published)

\* The loop over the aspects; os.listdir raises OSError for an aspect whose
\* directory is not there.
RECURSIVE MesosAspects(_, _, _, _, _)
MesosAspects(aspects, fs, order, containers, acc) ==
    IF aspects = <<>> THEN [published |-> acc, raised |-> NoError]
    ELSE IF Head(aspects) \notin fs.mounted
    THEN [published |-> acc, raised |-> "OSError"]
    ELSE LET out == MesosAspect(Head(aspects), order, fs.listing, containers, acc) IN
         IF out.raised # NoError THEN out
         ELSE MesosAspects(Tail(aspects), fs, order, containers, out.published)

MesosAspectNames == <<"cpuacct", "cpu", "memory">>

\* collect(); the cgroup file system is read once the table is built.
MesosReadsFs(fetch) ==
    LET got == GetContainers(fetch) IN
    /\ got.raised = NoError
    /\ {"cgroups_hierarchy", "cgroups_root"} \subseteq DOMAIN got.containers.flags

MesosCollectResult(fetch, fs, order) ==
    LET got == GetContainers(fetch) IN
    IF got.raised # NoError
    THEN [published |-> <<>>, logged |-> got.logged, raised |-> got.raised]
    ELSE IF ~MesosReadsFs(fetch)
    THEN [published |-> <<>>, logged |-> got.logged, raised |-> "KeyError"]
    ELSE LET out == MesosAspects(MesosAspectNames, fs, order, got.containers, <<>>) IN
         [published |-> out.published, logged |-> got.logged, raised |-> out.raised]

---------------------------------------------------------------------------
(* What a cycle may find in the file system *)

KvmNames == {"exits", "io_exits"}
KsmNames == {"pages_shared", "run"}

FirstLines == Numerals \cup {"x", ""}

KvmEntries == {NoOpen, NoRead} \cup {FileOf(l) : l \in FirstLines}
KsmEntries == {NoAccess, NoOpen, NoRead} \cup {FileOf(l) : l \in FirstLines}

\* A directory listing: some of the names, each with what it holds.
Listings(names, kinds) == UNION { [S -> kinds] : S \in SUBSET names }

UptimeFiles ==
    {[kind |-> "missing", line |-> <<>>], [kind |-> "noopen", line |-> <<>>],
     [kind |-> "noread", line |-> <<>>]}
    \cup {[kind |-> "file", line |-> l] :
            l \in {<<>>, <<"x", "1">>}
                   \cup {<<ToString(n)>> : n \in Numbers}
                   \cup {<<ToString(n), "1">> : n \in Numbers}}

UptimeUnits == {"seconds", "minutes", "hours", "days", "fortnights"}

---------------------------------------------------------------------------
(* What a cycle may find on a memcached socket *)

StatLine(key, value) == <<"STAT", SP, key, SP, value, CRLF>>

EndLine == <<"END", CRLF>>

\* A complete response, and one that also reports the server's pid.
Response == StatLine("curr_items", "1") \o StatLine("cmd_get", "2") \o EndLine

PidResponse == StatLine("pid", "7") \o StatLine("curr_items", "3") \o EndLine

\* Responses that break the protocol: a value that is no number, a STAT
\* line without a key.
BadResponses ==
    { StatLine("curr_items", "x") \o EndLine,
      <<"STAT", CRLF>> \o EndLine }

Data(text) == [kind |-> "data", data |-> text]

\* What a connection does: the response in one chunk, or cut in two at any
\* atom, the second part arriving, or the peer closing, or recv failing
\* instead; the peer closing at once; more data waiting after the
\* terminator; nothing arriving at all.
Cuts(text) ==
    LET first(k) == Data(SubSeq(text, 1, k))
        rest(k)  == Data(SubSeq(text, k + 1, Len(text)))
    IN  {<<Data(text)>>}
        \cup {<<first(k), rest(k)>> : k \in 1 .. (Len(text) - 1)}
        \cup {<<first(k), [kind |-> "closed", data |-> <<>>]>> : k \in 1 .. (Len(text) - 1)}
        \cup {<<[kind |-> "closed", data |-> <<>>]>>, <<Data(text), Data(text)>>}
        \cup {<<first(k), [kind |-> "error", data |-> <<>>]>> : k \in 1 .. (Len(text) - 1)}
        \cup {<<>>}

\* The processes of the machine: the memcached server the pid response
\* names, started with or without a connection limit, or no such process.
ProcTables ==
    { EmptyDict,
      [p \in {"7"} |-> <<"memcached", "-c", "5">>],
      [p \in {"7"} |-> <<"memcached", "-m", "64">>] }

McScripts ==
    {[connect |-> "error", events |-> <<>>, proc |-> EmptyDict]}
    \cup {[connect |-> "ok", events |-> e, proc |-> EmptyDict] : e \in Cuts(Response)}
    \cup {[connect |-> "ok", events |-> <<Data(r)>>, proc |-> EmptyDict] : r \in BadResponses}
    \cup {[connect |-> "ok", events |-> <<Data(PidResponse)>>, proc |-> t] : t \in ProcTables}

McHostLists ==
    { << <<"localhost", ":", "11211">> >>,
      << <<"m1", "@", "10.0.0.1", ":", "11211">>, <<"/var/run/memcached.sock">> >> }

McPublishLists == { Unset, <<"curr_items">>, <<"curr_items", "limit_maxconn">> }

McKeys == {"curr_items", "cmd_get", "limit_maxconn"}

---------------------------------------------------------------------------
(* What a cycle may find at the Mesos agent and under the cgroup root *)

MesosFlags == [cgroups_hierarchy |-> "/sys/fs/cgroup", cgroups_root |-> "mesos"]

Executor(container, source) == [container |-> container, source |-> source]

GoodSource == <<"www", ".", "prod", ".", "web", ".", "0">>
OtherSource == <<"www", ".", "prod", ".", "web", ".", "1">>
ShortSource == <<"www", ".", "web">>

\* The state documents: without flags, without frameworks, with one or two
\* executors, with an executor whose source has another shape.
MesosStates ==
    { EmptyDict,
      [k \in {"flags"} |-> MesosFlags],
      [flags |-> MesosFlags, frameworks |-> <<>>],
      [flags |-> MesosFlags,
       frameworks |-> << [executors |-> <<Executor("c1", GoodSource)>>] >>],
      [flags |-> MesosFlags,
       frameworks |-> << [executors |-> <<Executor("c1", GoodSource)>>],
                         [executors |-> <<Executor("c2", OtherSource)>>] >>],
      [flags |-> MesosFlags,
       frameworks |-> << [executors |-> <<Executor("c1", ShortSource)>>] >>] }

MesosFetches ==
    {[kind |-> "HTTPError", state |-> EmptyDict],
     [kind |-> "ValueError", state |-> EmptyDict],
     [kind |-> "URLError", state |-> EmptyDict]}
    \cup {[kind |-> "json", state |-> st] : st \in MesosStates}

\* What an entry under <hierarchy>/<aspect>/<root> may be: a plain file, or
\* a task directory: with its files, without cpuacct.usage, or with a stat
\* line of one token.
MesosDirs ==
    { [kind |-> "file", usage |-> "missing", has_stat |-> FALSE, stat |-> <<>>],
      [kind |-> "dir", usage |-> "5", has_stat |-> TRUE,
       stat |-> << <<"user", "1">>, <<"system", "2">> >>],
      [kind |-> "dir", usage |-> "missing", has_stat |-> TRUE, stat |-> <<>>],
      [kind |-> "dir", usage |-> "5", has_stat |-> TRUE, stat |-> << <<"user">> >>] }

MesosDirNames == {"c1", "c2", "flags"}

\* The cgroup file system: the aspects that are mounted, and the entries
\* under the cgroup root, the same under every aspect.
NoFileSystem == [mounted |-> {}, listing |-> EmptyDict]

MesosFileSystems ==
    [mounted : {{"cpuacct", "cpu", "memory"}, {"cpuacct", "cpu"}},
     listing : Listings(MesosDirNames, MesosDirs)]

---------------------------------------------------------------------------
(* collect() of each collector *)

Idle == collector = "none"

IPCollect ==
    /\ Idle
    /\ network' = <<>>
    /\ \E file \in IpFiles :
        LET read == SnmpRead(file, "Ip") IN
        /\ collector' = "ip"
        /\ input' = [file |-> file]
        /\ logged' = read.logged
        /\ leaked' = 0
        /\ UNCHANGED <<config, last_values, earlier_containers>>
        /\ IF read.raised # NoError
           THEN published' = <<>> /\ raised' = read.raised
           ELSE \E order \in Orders(DOMAIN read.metrics) :
                    LET pub == IpPublish(order, read.metrics, config.ip.allowed_names, <<>>) IN
                    /\ published' = pub.published
                    /\ raised' = pub.raised

UDPCollect ==
    /\ Idle
    /\ network' = <<>>
    /\ \E file \in UdpFiles :
        LET read == SnmpRead(file, "Udp") IN
        /\ collector' = "udp"
        /\ input' = [file |-> file, last |-> last_values.udp]
        /\ logged' = read.logged
        /\ leaked' = 0
        /\ UNCHANGED <<config, earlier_containers>>
        /\ IF read.raised # NoError
           THEN published' = <<>> /\ raised' = read.raised /\ UNCHANGED last_values
           ELSE \E order \in Orders(DOMAIN read.metrics) :
                    LET pub == UdpPublish(order, read.metrics, config.udp.allowed_names,
                                          last_values.udp, <<>>) IN
                    /\ published' = pub.published
                    /\ raised' = pub.raised
                    /\ last_values' = [last_values EXCEPT !.udp = pub.last]

KVMCollect ==
    /\ Idle
    /\ network' = <<>>
    /\ collector' = "kvm"
    /\ UNCHANGED <<config, earlier_containers>>
    /\ \/ \* os.path.isdir(PROC) is false
          /\ input' = [isdir |-> FALSE, entries |-> EmptyDict, last |-> last_values.kvm]
          /\ published' = <<>>
          /\ logged' = <<"missing">>
          /\ raised' = NoError
          /\ leaked' = 0
          /\ UNCHANGED last_values
       \/ \E entries \in Listings(KvmNames, KvmEntries) :
          \E order \in Orders(DOMAIN entries) :
            LET pub == KvmPublish(order, entries, last_values.kvm, <<>>, 0) IN
            /\ input' = [isdir |-> TRUE, entries |-> entries, last |-> last_values.kvm]
            /\ published' = pub.published
            /\ logged' = <<>>
            /\ raised' = pub.raised
            /\ leaked' = pub.leaked
            /\ last_values' = [last_values EXCEPT !.kvm = pub.last]

KSMCollect ==
    /\ Idle
    /\ network' = <<>>
    /\ \E entries \in Listings(KsmNames, KsmEntries) :
       \E order \in Orders(DOMAIN entries) :
            LET pub == KsmPublish(order, entries, <<>>) IN
            /\ collector' = "ksm"
            /\ input' = [entries |-> entries, order |-> order]
            /\ published' = pub.published
            /\ logged' = <<>>
            /\ raised' = pub.raised
            /\ leaked' = pub.leaked
            /\ UNCHANGED <<config, last_values, earlier_containers>>

UptimeCollect ==
    /\ Idle
    /\ network' = <<>>
    /\ \E file \in UptimeFiles :
        /\ collector' = "uptime"
        /\ input' = [file |-> file]
        /\ raised' = NoError
        /\ UNCHANGED <<config, last_values, earlier_containers>>
        /\ IF file.kind = "missing"
           THEN /\ published' = <<>>
                /\ logged' = <<"missing">>
                /\ leaked' = 0
           ELSE LET r == UptimeRead(file, config.uptime.metric_name) IN
                /\ published' = IF ~r.ok THEN <<>>
                                ELSE <<[name  |-> config.uptime.metric_name,
                                        value |-> r.v,
                                        kind  |-> "publish"]>>
                /\ logged' = r.logged
                /\ leaked' = r.leaked

MemcachedCollect ==
    /\ Idle
    /\ \E scripts \in [1 .. Len(config.memcached.hosts) -> McScripts] :
       \E ranking \in Orders(McKeys) :
            LET out == McCollect(config.memcached.hosts, scripts,
                                 config.memcached.publish, ranking, <<>>, <<>>) IN
            /\ collector' = "memcached"
            /\ input' = [scripts |-> scripts]
            /\ network' = McNetwork(config.memcached.hosts, scripts)
            /\ published' = out.published
            /\ logged' = out.logged
            /\ raised' = out.raised
            /\ leaked' = 0
            /\ UNCHANGED <<config, last_values, earlier_containers>>

\* json.load(urllib2.urlopen(url)): the response that urlopen returned is
\* handed to json.load and never closed by the collector.
MesosResponsesLeft(fetch) == IF fetch.kind \in {"json", "ValueError"} THEN 1 ELSE 0

MesosCollect ==
    /\ Idle
    /\ network' = MesosNetwork
    /\ collector' = "mesos"
    /\ UNCHANGED <<config, last_values>>
    /\ \E fetch \in MesosFetches :
        /\ leaked' = MesosResponsesLeft(fetch)
        /\ earlier_containers' = MesosHistory(GetContainers(fetch))
        /\ IF ~MesosReadsFs(fetch)
           THEN LET out == MesosCollectResult(fetch, NoFileSystem, <<>>) IN
                /\ input' = [fetch |-> fetch, fs |-> NoFileSystem, order |-> <<>>,
                            before |-> earlier_containers]
                /\ published' = out.published
                /\ logged' = out.logged
                /\ raised' = out.raised
           ELSE \E fs \in MesosFileSystems :
                \E order \in Orders(DOMAIN fs.listing) :
                   LET out == MesosCollectResult(fetch, fs, order) IN
                   /\ input' = [fetch |-> fetch, fs |-> fs, order |-> order,
                               before |-> earlier_containers]
                   /\ published' = out.published
                   /\ logged' = out.logged
                   /\ raised' = out.raised

\* The host has taken the samples of the cycle; the record of the call is
\* dropped and the next collect() may start.
EndCycle ==
    /\ ~Idle
    /\ collector' = "none"
    /\ input' = [file |-> Unreadable]
    /\ published' = <<>>
    /\ logged' = <<>>
    /\ raised' = NoError
    /\ leaked' = 0
    /\ network' = <<>>
    /\ UNCHANGED <<config, last_values, earlier_containers>>

---------------------------------------------------------------------------
(* Construction and the specifications *)

DefaultConfig ==
    [ip     |-> [allowed_names |-> {}],
     udp    |-> [allowed_names |-> {}],
     uptime |-> [metric_name |-> "minutes"],
     memcached |-> [hosts |-> << <<"localhost", ":", "11211">> >>, publish |-> Unset]]

Configs ==
    [ip     : [allowed_names : AllowLists(IpNames)],
     udp    : [allowed_names : AllowLists(UdpNames)],
     uptime : [metric_name : UptimeUnits],
     memcached : [hosts : McHostLists, publish : McPublishLists]]

Fresh ==
    /\ last_values = [udp |-> EmptyDict, kvm |-> EmptyDict]
    /\ collector = "none"
    /\ input = [file |-> Unreadable]
    /\ published = <<>>
    /\ logged = <<>>
    /\ raised = NoError
    /\ leaked = 0
    /\ network = <<>>
    /\ earlier_containers = EmptyDict

\* Every collector with its default configuration.
Init == config = DefaultConfig /\ Fresh

Next ==
    \/ IPCollect
    \/ UDPCollect
    \/ KVMCollect
    \/ KSMCollect
    \/ UptimeCollect
    \/ MemcachedCollect
    \/ MesosCollect
    \/ EndCycle

Spec == Init /\ [][Next]_vars

\* One collector instance on its own, under every configuration of it.
InitIP == config \in {c \in Configs : \A k \in DOMAIN c : k # "ip" => c[k] = DefaultConfig[k]} /\ Fresh
SpecIP == InitIP /\ [][IPCollect \/ EndCycle]_vars

InitUDP == config \in {c \in Configs : \A k \in DOMAIN c : k # "udp" => c[k] = DefaultConfig[k]} /\ Fresh
SpecUDP == InitUDP /\ [][UDPCollect \/ EndCycle]_vars

SpecKVM == Init /\ [][KVMCollect \/ EndCycle]_vars

SpecKSM == Init /\ [][KSMCollect \/ EndCycle]_vars

InitUptime == config \in {c \in Configs : \A k \in DOMAIN c : k # "uptime" => c[k] = DefaultConfig[k]} /\ Fresh
SpecUptime == InitUptime /\ [][UptimeCollect \/ EndCycle]_vars

InitMemcached == config \in {c \in Configs : \A k \in DOMAIN c : k # "memcached" => c[k] = DefaultConfig[k]} /\ Fresh
SpecMemcached == InitMemcached /\ [][MemcachedCollect \/ EndCycle]_vars

SpecMesos == Init /\ [][MesosCollect \/ EndCycle]_vars

\* The two /proc/net/snmp collectors, each under every allow-list.
InitSnmp == (InitIP \/ InitUDP)
SpecSnmp == InitSnmp /\ [][IPCollect \/ UDPCollect \/ EndCycle]_vars

\* The two derivative collectors.
SpecDerivative == Init /\ [][UDPCollect \/ KVMCollect \/ EndCycle]_vars

---------------------------------------------------------------------------
(* The claims *)

\* C1: IPCollector and UDPCollector publish a metric name only if the
\* allow-list is empty or holds the name.
C1_AllowList ==
    collector \in {"ip", "udp"} =>
        \A i \in DOMAIN published :
            \/ config[collector].allowed_names = {}
            \/ published[i].name \in config[collector].allowed_names

\* C1 witness: a file with two metrics, one of them on the allow-list, and
\* only that one published.
C1_Witness ==
    /\ collector = "ip"
    /\ config.ip.allowed_names = {"InReceives", "OutRequests"}
    /\ input.file.lines = <<IpHeader, <<"Ip:", "1", "3">> >>
    /\ Len(published) = 1
    /\ published[1].name = "InReceives"

\* C2: collect() of every collector returns to the host without raising,
\* whatever fails.
C2_NeverRaises == raised = NoError

\* C3: a memcached host whose connection fails or times out is logged and
\* publishes nothing, and every other host is queried and published.
McFailed(script) == GetRawStats(script).logged # <<>>

McPublishedOf(spec) ==
    {i \in DOMAIN published :
        SubSeq(published[i].name, 1, Len(HostAlias(spec))) = HostAlias(spec)}

McAnswers(script) == script.connect = "ok" /\ script.events = <<Data(Response)>>

C3_FailedHostSkipped ==
    collector = "memcached" =>
        LET hosts == config.memcached.hosts IN
        \A h \in DOMAIN hosts :
            (/\ McFailed(input.scripts[h])
             /\ \A o \in DOMAIN hosts \ {h} : McAnswers(input.scripts[o]))
            => /\ \E l \in DOMAIN logged : logged[l] = "socket.error"
               /\ McPublishedOf(hosts[h]) = {}
               /\ \A o \in DOMAIN hosts \ {h} : McPublishedOf(hosts[o]) # {}

\* C4: when the fetch of the Mesos state fails or the response is no JSON,
\* an error is logged and collect() ends the cycle with nothing published
\* and nothing raised.
C4_FetchFailureEndsCycle ==
    (collector = "mesos" /\ input.fetch.kind \in {"HTTPError", "ValueError", "URLError"}) =>
        /\ logged # <<>>
        /\ published = <<>>
        /\ raised = NoError

\* C5: for two successive raw readings v0, v1 of a name, UDPCollector and
\* KVMCollector publish v1 - v0 when v1 >= v0 and (modulus - v0) + v1 when
\* v1 < v0, the modulus being the one passed to derivative(): 2^w - 1 for
\* KVM at counter width w, none (0) for UDP.
C5_Modulus == IF collector = "kvm" THEN 2 ^ CounterBits - 1 ELSE 0

C7_MaxConnPublished ==
    (/\ collector = "memcached"
     /\ config.memcached.publish = Unset
     /\ input.scripts[1].events = <<Data(PidResponse)>>
     /\ "7" \in DOMAIN input.scripts[1].proc
     /\ HasMaxConn(input.scripts[1].proc["7"]))
    => /\ \A i \in DOMAIN published : published[i].name[Len(published[i].name)] # "pid"
       /\ \E i \in DOMAIN published :
            /\ published[i].name = HostAlias(config.memcached.hosts[1]) \o <<".", "limit_maxconn">>
            /\ published[i].value = 5

\* C8: a subdirectory of a cgroup root that is the container of no
\* executor publishes nothing and raises nothing, and the other
\* subdirectories are processed: in a cycle whose matched directories and
\* mounts are in order, nothing is raised and every matched directory is
\* published.
MesosExecutorsOf(state) ==
    IF "frameworks" \in DOMAIN state THEN Executors(state.frameworks) ELSE <<>>

MesosExecutorIds ==
    {MesosExecutorsOf(input.fetch.state)[i].container :
        i \in DOMAIN MesosExecutorsOf(input.fetch.state)}

MesosGoodDir(dir) == dir.kind = "dir" /\ dir.usage # "missing" /\ dir.has_stat /\
                     \A l \in DOMAIN dir.stat : Len(dir.stat[l]) = 2

\* The metrics of the matched directories: cpuacct.usage, and the lines of
\* the stat file of each of the three subsystems.
RECURSIVE MesosMetricsOf(_)
MesosMetricsOf(dirs) ==
    IF dirs = {} THEN 0
    ELSE LET d == CHOOSE x \in dirs : TRUE IN
         (IF input.fs.listing[d].kind = "dir"
          THEN 1 + 3 * Len(input.fs.listing[d].stat) ELSE 0)
         + MesosMetricsOf(dirs \ {d})

C8_UnknownDirSkipped ==
    (/\ collector = "mesos"
     /\ MesosReadsFs(input.fetch)
     /\ input.fs.mounted = {"cpuacct", "cpu", "memory"}
     /\ \A e \in DOMAIN MesosExecutorsOf(input.fetch.state) :
            Len(Split(MesosExecutorsOf(input.fetch.state)[e].source, ".")) = 4
     /\ \A d \in DOMAIN input.fs.listing \cap MesosExecutorIds :
            MesosGoodDir(input.fs.listing[d]))
    => /\ raised = NoError
       /\ Len(published) =
            MesosMetricsOf(DOMAIN input.fs.listing \cap MesosExecutorIds)

\* C9: UptimeCollector publishes nothing and logs one error when the path
\* is missing or reading, parsing or converting fails, and otherwise
\* publishes one value under the configured name and logs nothing; it never
\* raises.
UptimeFails ==
    \/ input.file.kind \in {"missing", "noopen", "noread"}
    \/ input.file.line = <<>>
    \/ input.file.line[1] \notin {ToString(n) : n \in Numbers}
    \/ config.uptime.metric_name \notin {"seconds", "minutes", "hours", "days"}

C9_UptimeOneOrNone ==
    collector = "uptime" =>
        /\ raised = NoError
        /\ IF UptimeFails
           THEN published = <<>> /\ Len(logged) = 1
           ELSE /\ Len(published) = 1
                /\ published[1].name = config.uptime.metric_name
                /\ published[1].value.num = NumberOf(input.file.line[1])
                /\ logged = <<>>

\* C9 witness: 2 seconds of uptime published as 2/60 minutes.
C9_Witness ==
    /\ collector = "uptime"
    /\ config.uptime.metric_name = "minutes"
    /\ input.file = [kind |-> "file", line |-> <<"2", "1">>]
    /\ published = <<[name |-> "minutes", value |-> [num |-> 2, den |-> 60],
                      kind |-> "publish"]>>
    /\ logged = <<>>

\* C10: under ksm_path an entry that cannot be read or whose first line is
\* no number publishes nothing, logs nothing and does not abort the cycle:
\* every readable sibling with a number is published once.
C10_KsmSkipsQuietly ==
    collector = "ksm" =>
        /\ logged = <<>>
        /\ \A item \in DOMAIN input.entries :
            LET entry == input.entries[item]
                pubs  == {i \in DOMAIN published : published[i].name = item}
            IN  IF entry.kind = "file" /\ IsNumeral(entry.line)
                THEN Cardinality(pubs) = 1
                ELSE pubs = {}

\* The header of IPCollector's file is its first line starting with 'Ip',
\* the data row the line right after it.
C11_IsHeader(k) ==
    /\ k \in DOMAIN input.file.lines
    /\ StartsWith(input.file.lines[k], "Ip")
    /\ \A j \in 1 .. (k - 1) : ~StartsWith(input.file.lines[j], "Ip")

C11_Passes(name) ==
    config.ip.allowed_names = {} \/ name \in config.ip.allowed_names

C12_UnlabelledRow ==
    (/\ collector = "ip"
     /\ config.ip.allowed_names = {}
     /\ input.file.readable
     /\ input.file.lines = << <<"Ip:", "Forwarding", "InReceives">>, <<"1", "100">> >>)
    => /\ Len(published) = 2
       /\ \E p \in DOMAIN published :
            published[p] = [name |-> "Forwarding", value |-> 1, kind |-> "gauge"]
       /\ \E p \in DOMAIN published :
            published[p] = [name |-> "InReceives", value |-> 100, kind |-> "counter"]

C13_Prefix == IF collector = "ip" THEN "Ip" ELSE "Udp"

\* The file has no line starting with the prefix, or its first such line is
\* the last line or is followed by a blank line.
C13_NoHeaderOrNoData ==
    LET lines == input.file.lines IN
    \/ \A k \in DOMAIN lines : ~StartsWith(lines[k], C13_Prefix)
    \/ \E k \in DOMAIN lines :
        /\ StartsWith(lines[k], C13_Prefix)
        /\ \A j \in 1 .. (k - 1) : ~StartsWith(lines[j], C13_Prefix)
        /\ (k = Len(lines) \/ lines[k + 1] = <<>>)

\* C13: when the file of IPCollector or UDPCollector has no header line, or
\* the header is not followed by a data line carrying values, one error is
\* logged, nothing is published and collect() returns without raising.
C13_MissingLines ==
    (/\ collector \in {"ip", "udp"}
     /\ input.file.readable
     /\ C13_NoHeaderOrNoData)
    => /\ published = <<>>
       /\ Len(logged) = 1
       /\ raised = NoError

\* The stats retained from the response of host h: none when get_stats
\* raised for it or collect() had raised before reaching it.
C14_Retained(h) ==
    IF \E j \in 1 .. h : GetStats(input.scripts[j]).raised # NoError
    THEN {}
    ELSE DOMAIN GetStats(input.scripts[h]).stats

\* The alias of '[alias@]host[:port]': what precedes the "@", or the host.
C14_Alias(spec) ==
    LET ats    == {i \in DOMAIN spec : spec[i] = "@"}
        colons == {i \in DOMAIN spec : spec[i] = ":"}
    IN  IF ats # {} THEN SubSeq(spec, 1, Max(ats) - 1)
        ELSE IF colons # {} THEN SubSeq(spec, 1, (CHOOSE i \in colons : \A j \in colons : i <= j) - 1)
        ELSE spec

\* C14: every stat s retained from a host's response is published as
\* '<alias>.<s>' if and only if the publish list is unset or contains s, as
\* a gauge exactly when s is in GAUGES (which holds curr_items and uptime)
\* and as a counter otherwise; an ignored key is never published.
C14_NamingAndKind ==
    collector = "memcached" =>
        /\ \A h \in DOMAIN config.memcached.hosts :
           \A s \in C14_Retained(h) :
                LET name == C14_Alias(config.memcached.hosts[h]) \o <<".", s>>
                    pubs == {p \in DOMAIN published : published[p].name = name}
                    publish == config.memcached.publish
                IN  /\ (pubs # {}) <=>
                            (publish = Unset \/ \E k \in DOMAIN publish : publish[k] = s)
                    /\ \A p \in pubs :
                        published[p].kind = IF s \in MC_GAUGES THEN "gauge" ELSE "counter"
        /\ {"curr_items", "uptime"} \subseteq MC_GAUGES
        /\ \A p \in DOMAIN published :
            published[p].name[Len(published[p].name)] \notin MC_IGNORED

\* C14 witness: an aliased host answers with curr_items and cmd_get while
\* the publish list holds curr_items only: m1.curr_items is published as a
\* gauge and m1.cmd_get is not published.
C14_Witness ==
    /\ collector = "memcached"
    /\ config.memcached.publish = <<"curr_items">>
    /\ config.memcached.hosts[1] = <<"m1", "@", "10.0.0.1", ":", "11211">>
    /\ input.scripts[1].connect = "ok"
    /\ input.scripts[1].events = <<Data(Response)>>
    /\ \E p \in DOMAIN published :
        published[p] = [name |-> <<"m1", ".", "curr_items">>, value |-> 1, kind |-> "gauge"]
    /\ \A p \in DOMAIN published : published[p].name # <<"m1", ".", "cmd_get">>

\* C15: in every collector, every file handle and every socket opened during
\* a collect() call has been closed when the call returns or raises.
C15_HandlesClosed == leaked = 0

\* C16: every blocking network operation of a cycle (the memcached connect,
\* send and recv, the Mesos HTTP fetch) is started only after a fixed
\* timeout has been put in effect on it.
C16_TimeoutFirst ==
    \A i \in DOMAIN network : network[i].timed

\* The chunks that the first i recv calls of a connection returned, joined
\* in the order received.
RECURSIVE C17_Chunks(_, _)
C17_Chunks(events, i) ==
    IF i = 0 THEN <<>> ELSE C17_Chunks(events, i - 1) \o events[i].data

C17_Terminated(buffer) ==
    Len(buffer) >= 2 /\ SubSeq(buffer, Len(buffer) - 1, Len(buffer)) = <<"END", CRLF>>

\* recv number i is the first after which the buffer ends with 'END\r\n',
\* or the first to return no data.
C17_StopsAt(events, i) ==
    /\ i \in DOMAIN events
    /\ \A j \in 1 .. (i - 1) :
        events[j].kind = "data" /\ ~C17_Terminated(C17_Chunks(events, j))
    /\ \/ events[i].kind = "closed"
       \/ events[i].kind = "data" /\ C17_Terminated(C17_Chunks(events, i))

\* The hosts whose get_raw_stats was called in this cycle.
C17_Reached ==
    {h \in DOMAIN input.scripts :
        /\ input.scripts[h].connect = "ok"
        /\ \A j \in 1 .. (h - 1) : GetStats(input.scripts[j]).raised = NoError}

\* C17: get_raw_stats stops reading at the first recv after which the
\* buffer ends with 'END\r\n' or which returns no data, issues no recv after
\* it, and returns exactly the chunks received, joined in order.
C17_RecvLoop ==
    collector = "memcached" =>
        \A h \in C17_Reached :
            LET events == input.scripts[h].events
                raw    == GetRawStats(input.scripts[h])
            IN  \A i \in DOMAIN events :
                    C17_StopsAt(events, i) =>
                        /\ raw.recvs = i
                        /\ raw.data = C17_Chunks(events, i)
                        /\ raw.logged = <<>>

\* C17 witness: the terminator arrives split across two chunks, 'END' at
\* the end of the first and the line end as the second; two recv calls are
\* issued and both stats of the response are published.
C17_Witness ==
    /\ collector = "memcached"
    /\ Len(config.memcached.hosts) = 1
    /\ config.memcached.publish = Unset
    /\ input.scripts[1].connect = "ok"
    /\ input.scripts[1].events =
        <<Data(SubSeq(Response, 1, Len(Response) - 1)), Data(<<CRLF>>)>>
    /\ network = <<NetworkOp("connect", FALSE), NetworkOp("send", TRUE),
                   NetworkOp("recv", TRUE), NetworkOp("recv", TRUE)>>
    /\ Len(published) = 2
    /\ raised = NoError

\* The path under which the metrics of a table entry are published.
C18_Prefix(entry) ==
    entry.environment \o <<".">> \o entry.role \o <<".">> \o entry.task \o <<".">> \o entry.id

\* The container IDs of earlier cycles that the state fetched in this cycle
\* no longer holds.
C18_Gone == (DOMAIN input.before \ {"flags"}) \ MesosExecutorIds

\* C18: the container table of a cycle is built from the state fetched in
\* that cycle alone: a container of an earlier cycle's state that is absent
\* from the current state publishes no metric, also when its cgroup
\* directories still exist.
C18_TableRebuilt ==
    collector = "mesos" =>
        \A id \in C18_Gone :
        \A p \in DOMAIN published :
            LET prefix == C18_Prefix(input.before[id]) IN
            SubSeq(published[p].name, 1, Len(prefix)) # prefix

\* C18 witness: c2 was in the state of an earlier cycle and is not in the
\* current one, its directory is still under the cgroup root next to that of
\* c1, and the cycle publishes the metrics of c1.
C18_Witness ==
    /\ collector = "mesos"
    /\ raised = NoError
    /\ "c2" \in C18_Gone
    /\ MesosExecutorIds = {"c1"}
    /\ {"c1", "c2"} \subseteq DOMAIN input.fs.listing
    /\ MesosGoodDir(input.fs.listing["c1"])
    /\ MesosGoodDir(input.fs.listing["c2"])
    /\ published # <<>>
    /\ \A p \in DOMAIN published :
        SubSeq(published[p].name, 1, 7) = <<"prod", ".", "www", ".", "web", ".", "0">>

\* C19: for a KVM counter of width w that wraps modulo 2^w, a reading v1
\* lower than the previous reading v0 after exactly one wraparound is
\* published as the true number of increments, (2^w - v0) + v1.
C19_TrueIncrements ==
    collector = "kvm" =>
        \A i \in DOMAIN published :
            LET name == published[i].name IN
            (name \in DOMAIN input.last /\ last_values.kvm[name] < input.last[name])
            => published[i].value =
                    (2 ^ CounterBits - input.last[name]) + last_values.kvm[name]

====
